---- MODULE Spec2Model ----
(***************************************************************************)
(* A model of the pyTenable request pipeline:                              *)
(*   - APIResultsIterator / TIOIterator  (tenable/base.py,                 *)
(*     tenable/tenable_io/base.py): the lazy page-driven results iterator; *)
(*   - APIEndpoint._check (tenable/base.py): the input validator;          *)
(*   - APISession._request (tenable/base.py): the status classification.   *)
(* Python 3 semantics are modelled (str is the only text class; the        *)
(* "unicode" name of line 191 does not exist and the NameError is passed). *)
(***************************************************************************)
EXTENDS Integers, Sequences, FiniteSets, TLC

\* ------------------------------------------------------------------------
\* Bounds of the model
\* ------------------------------------------------------------------------
MaxTotal == 3
MaxLimit == 2
MaxOffset0 == 1
MaxPagesTotal == 2
MaxFetch == 4
MaxStops == 2
MaxCalls == 2
MaxRequests == 2
MaxFilters == 2

\* ------------------------------------------------------------------------
\* Python's None, for the integer-valued attributes that may hold it
\* (_pages_total = None: no limitation on the number of pages).
\* ------------------------------------------------------------------------
NoneInt == 0 - 1

\* Python truthiness of an int-or-None attribute: None and 0 are both false.
Truthy(x) == x # NoneInt /\ x # 0

Min(a, b) == IF a <= b THEN a ELSE b
Max(a, b) == IF a >= b THEN a ELSE b
CeilDiv(a, b) == (a + b - 1) \div b

\* The records lo, lo+1, ..., lo+n-1 of the server's collection, in order.
Records(lo, n) == [i \in 1..n |-> lo + i - 1]

VARIABLES
    \* APIResultsIterator attributes
    count, page_count, total, page,
    _limit, _offset, _pages_total, _pages_requested,
    \* the remote listing behind _get_data, and the observation of the run:
    \* the initial offset, the _get_data calls made, the records returned,
    \* what the last next() call gave and how many StopIteration in a row
    server, offset0, requests, yielded, last, stops,
    \* the argument objects of a caller of APIEndpoint._check, the
    \* expected_type as it was passed to the last call, what that call
    \* gave, what the first call gave, and the number of calls
    arg_name, arg_obj, arg_expected_type, arg_choices, arg_default,
    arg_case, arg_pattern, called_type, result, first_result, calls,
    \* APISession: the last transport request, its response, what the verb
    \* method gave, and the number of requests
    sent, last_response, outcome, nsent,
    \* the arguments of the APISession constructor, the session object
    \* (its URL, RETRIES, RETRY_BACKOFF and the adapters of its _session),
    \* the last verb method call and the number of verb method calls
    kw, session, called, ncalls,
    \* an endpoint operation: the operation called with its arguments, the
    \* session verb calls it issued, and what it gave its caller
    ep, wire, ep_result,
    \* _parse_filters: the filter tuples, the format, and what the call gave
    finput, rtype, parsed,
    \* callers sharing one iterator: the statement of next() each caller is
    \* at, the record it read and has not returned yet, the records returned
    \* to it; whether the callers put next() under a lock of their own, and
    \* the caller holding that lock
    at, held, got, sync, holder

chkvars == <<arg_name, arg_obj, arg_expected_type, arg_choices, arg_default,
             arg_case, arg_pattern, called_type, result, first_result,
             calls>>

reqvars == <<sent, last_response, outcome, nsent, kw, session, called, ncalls>>

epvars == <<ep, wire, ep_result>>

flvars == <<finput, rtype, parsed>>

cvars == <<at, held, got, sync, holder>>

itvars == <<count, page_count, total, page,
            _limit, _offset, _pages_total, _pages_requested,
            server, offset0, requests, yielded, last, stops>>

\* ------------------------------------------------------------------------
\* The server behind TIOIterator._get_data.  A response is the page of
\* records (resp[key]) and resp['pagination']['total'].
\*   mode "const": the collection has T records 0..T-1; a request at
\*                 offset o with limit l gets the records o..min(o+l,T)-1
\*                 and total T;
\*   mode "any":   any page of at most l records and any total.
\* ------------------------------------------------------------------------
Servers ==
    [mode : {"const"}, T : 0..MaxTotal] \cup [mode : {"any"}, T : {0}]

_get_data(srv, off, lim) ==
    IF srv.mode = "const"
    THEN {[page |-> Records(off, Max(0, Min(off + lim, srv.T) - off)),
           total |-> srv.T]}
    ELSE {[page |-> Records(off, n), total |-> t] :
             n \in 0..lim, t \in 0..MaxTotal}

\* ------------------------------------------------------------------------
\* APIResultsIterator.next and TIOIterator._get_page
\* ------------------------------------------------------------------------
\* A variant of the exhaustion test that stops one call late (">").
ExhaustedLate(c, t) == c > t

\* next(): "if self.count >= self.total: raise StopIteration()"
Exhausted(c, t) == c >= t

\* next(): "if self.page_count >= len(self.page) and self.count <= self.total"
NeedPage(pc, pg, c, t) == pc >= Len(pg) /\ c <= t

\* A variant of the page-cap test that lets one page too many through.
CapReachedLate(pt, pr) == Truthy(pt) /\ pr > pt

\* _get_page(): "if self._pages_total and
\*               self._pages_requested >= self._pages_total"
CapReached(pt, pr) == Truthy(pt) /\ pr >= pt

\* A variant of the offset update that assigns instead of adding.
AdvanceOffsetAssign(off, lim) == lim

\* _get_page(): "self._offset += self._limit"
AdvanceOffset(off, lim) == off + lim

\* next(), lines 80-83, on the page pg with the cursor pc and the count c:
\* item = self.page[self.page_count] (IndexError when the cursor is outside
\* the page), then both counters are incremented and the item is returned.
ReadRecord(pg, pc, c) ==
    IF pc + 1 \in 1..Len(pg)
    THEN /\ count' = c + 1
         /\ page_count' = pc + 1
         /\ yielded' = Append(yielded, pg[pc + 1])
         /\ last' = "item"
         /\ stops' = 0
    ELSE /\ count' = c
         /\ page_count' = pc
         /\ yielded' = yielded
         /\ last' = "IndexError"
         /\ stops' = 0

\* The state after construction: __init__ stores the keyword arguments
\* (_limit, _offset, _pages_total) over the class attributes and calls
\* _get_page() once.
Init_Iterator ==
    /\ server \in Servers
    /\ _limit \in 1..MaxLimit
    /\ offset0 \in 0..MaxOffset0
    /\ _pages_total \in {NoneInt} \cup (0..MaxPagesTotal)
    /\ \E resp \in _get_data(server, offset0, _limit) :
          /\ page = resp.page
          /\ total = resp.total
    /\ _offset = AdvanceOffset(offset0, _limit)
    /\ _pages_requested = 1
    /\ requests = 1
    /\ page_count = 0
    /\ count = 0
    /\ yielded = << >>
    /\ last = "constructed"
    /\ stops = 0

\* next() when the count has reached the total: StopIteration.
NextExhausted ==
    /\ Exhausted(count, total)
    /\ last' = "StopIteration"
    /\ stops' = IF stops < MaxStops THEN stops + 1 ELSE stops
    /\ UNCHANGED <<count, page_count, total, page, _limit, _offset,
                   _pages_total, _pages_requested, server, offset0,
                   requests, yielded>>
    /\ UNCHANGED <<chkvars, reqvars, epvars, flvars, cvars>>

\* next() with records left on the in-memory page: no page request.
NextFromPage ==
    /\ ~Exhausted(count, total)
    /\ ~NeedPage(page_count, page, count, total)
    /\ ReadRecord(page, page_count, count)
    /\ UNCHANGED <<total, page, _limit, _offset, _pages_total,
                   _pages_requested, server, offset0, requests>>
    /\ UNCHANGED <<chkvars, reqvars, epvars, flvars, cvars>>

\* A variant of the refused fetch that resets the page cursor before it
\* tests the page cap.
NextCappedLate ==
    /\ ~Exhausted(count, total)
    /\ NeedPage(page_count, page, count, total)
    /\ CapReached(_pages_total, _pages_requested)
    /\ page_count' = 0
    /\ last' = "StopIteration"
    /\ stops' = IF stops < MaxStops THEN stops + 1 ELSE stops
    /\ UNCHANGED <<count, total, page, _limit, _offset,
                   _pages_total, _pages_requested, server, offset0,
                   requests, yielded>>
    /\ UNCHANGED <<chkvars, reqvars, epvars, flvars, cvars>>

\* next() at the end of the page with the page cap reached: _get_page()
\* raises StopIteration before anything is requested or changed.
NextCapped ==
    /\ ~Exhausted(count, total)
    /\ NeedPage(page_count, page, count, total)
    /\ CapReached(_pages_total, _pages_requested)
    /\ last' = "StopIteration"
    /\ stops' = IF stops < MaxStops THEN stops + 1 ELSE stops
    /\ UNCHANGED <<count, page_count, total, page, _limit, _offset,
                   _pages_total, _pages_requested, server, offset0,
                   requests, yielded>>
    /\ UNCHANGED <<chkvars, reqvars, epvars, flvars, cvars>>

\* A variant of the cursor reset that keeps the cursor of the page that is
\* replaced.
ResetCursorKeep(cursor) == cursor

\* _get_page() puts the cursor at the head of the page it brings.
ResetCursor(cursor) == 0

\* next() at the end of the page: _get_page() requests the next page,
\* resets the cursor, counts the page, advances the offset and takes the
\* page and the total of the response; then the record is read.
NextFetch ==
    /\ ~Exhausted(count, total)
    /\ NeedPage(page_count, page, count, total)
    /\ ~CapReached(_pages_total, _pages_requested)
    /\ _pages_requested < MaxFetch
    /\ \E resp \in _get_data(server, _offset, _limit) :
          /\ page' = resp.page
          /\ total' = resp.total
          /\ ReadRecord(resp.page, ResetCursor(page_count), count)
    /\ _pages_requested' = _pages_requested + 1
    /\ requests' = requests + 1
    /\ _offset' = AdvanceOffset(_offset, _limit)
    /\ UNCHANGED <<_limit, _pages_total, server, offset0>>
    /\ UNCHANGED <<chkvars, reqvars, epvars, flvars, cvars>>

\* ========================================================================
\* APIEndpoint._check
\* ========================================================================
\* Python values: t is the class of the value, v its content.  A str is
\* the sequence of its characters, a list the sequence of its elements.
NoneV == [t |-> "NoneType", v |-> 0]
PyBool(b) == [t |-> "bool", v |-> IF b THEN 1 ELSE 0]
PyInt(n) == [t |-> "int", v |-> n]
PyStr(s) == [t |-> "str", v |-> s]
PyList(s) == [t |-> "list", v |-> s]
\* A float, counted in tenths (PyFloat(2) is 0.2).
PyFloat(tenths) == [t |-> "float", v |-> tenths]

LowerChars ==
    <<"a", "b", "c", "d", "e", "f", "g", "h", "i", "j", "k", "l", "m",
      "n", "o", "p", "q", "r", "s", "t", "u", "v", "w", "x", "y", "z">>
UpperChars ==
    <<"A", "B", "C", "D", "E", "F", "G", "H", "I", "J", "K", "L", "M",
      "N", "O", "P", "Q", "R", "S", "T", "U", "V", "W", "X", "Y", "Z">>
HexChars ==
    {"0", "1", "2", "3", "4", "5", "6", "7", "8", "9",
     "a", "b", "c", "d", "e", "f", "A", "B", "C", "D", "E", "F"}

\* str.lower() and str.upper(), character by character.
LowerChar(c) ==
    IF \E i \in 1..Len(UpperChars) : UpperChars[i] = c
    THEN LowerChars[CHOOSE i \in 1..Len(UpperChars) : UpperChars[i] = c]
    ELSE c
UpperChar(c) ==
    IF \E i \in 1..Len(LowerChars) : LowerChars[i] = c
    THEN UpperChars[CHOOSE i \in 1..Len(LowerChars) : LowerChars[i] = c]
    ELSE c
lower(s) == PyStr([i \in 1..Len(s.v) |-> LowerChar(s.v[i])])
upper(s) == PyStr([i \in 1..Len(s.v) |-> UpperChar(s.v[i])])

\* isinstance(obj, etype) for the classes int, str, list and bool
\* (bool is a subclass of int).
IsInstance(obj, etype) ==
    obj.t = etype \/ (etype = "int" /\ obj.t = "bool")

\* The truth value of a Python object ("if default:").
IsTrue(obj) ==
    IF obj.t = "NoneType" THEN FALSE
    ELSE IF obj.t \in {"bool", "int", "float"} THEN obj.v # 0
    ELSE IF obj.t = "datetime" THEN TRUE
    ELSE Len(obj.v) > 0

\* a == b for scalars: numbers compare by value (True == 1), a str only
\* equals a str.
PyEq(a, b) ==
    IF a.t \in {"bool", "int"} /\ b.t \in {"bool", "int"} THEN a.v = b.v
    ELSE a.t = b.t /\ a.v = b.v

\* "item in choices" for a list choices.
PyIn(item, lst) == \E i \in 1..Len(lst.v) : PyEq(item, lst.v[i])

\* A regular expression made of groups of hex digits [a-fA-F0-9]{lo,hi}
\* joined by "-"; no groups: no pattern (None).
NoPattern == [groups |-> << >>]
Group(lo, hi) == [lo |-> lo, hi |-> hi]
UUID_PATTERN ==
    [groups |-> <<Group(8, 8), Group(4, 4), Group(4, 4), Group(4, 4),
                  Group(12, 12)>>]
SCANNER_UUID_PATTERN ==
    [groups |-> <<Group(8, 8), Group(4, 4), Group(4, 4), Group(4, 4),
                  Group(12, 32)>>]

\* The pattern matches the characters s from position i on, from its
\* k-th group on.
RECURSIVE MatchAt(_, _, _, _)
MatchAt(s, i, pat, k) ==
    \E n \in pat.groups[k].lo..pat.groups[k].hi :
        /\ i + n - 1 <= Len(s)
        /\ \A j \in i..(i + n - 1) : s[j] \in HexChars
        /\ IF k = Len(pat.groups) THEN TRUE
           ELSE /\ i + n <= Len(s)
                /\ s[i + n] = "-"
                /\ MatchAt(s, i + n + 1, pat, k + 1)

\* len(re.findall(pattern, s)) > 0: the pattern matches somewhere in s.
Found(pat, s) == \E i \in 1..Len(s) : MatchAt(s, i, pat, 1)

\* What a call gives: the returned value, or the exception raised with
\* the parts that its message names.
Return(val) == [kind |-> "return", value |-> val, msg |-> << >>]
Raise(exc, parts) == [kind |-> exc, value |-> NoneV, msg |-> parts]

\* Case normalization that transforms only strings: the strings of a list
\* are converted and its other elements stay at their positions.
convKeep(obj, case) ==
    IF case = "lower"
    THEN IF obj.t = "list"
         THEN PyList([i \in 1..Len(obj.v) |->
                      IF obj.v[i].t = "str" THEN lower(obj.v[i])
                      ELSE obj.v[i]])
         ELSE IF obj.t = "str" THEN lower(obj) ELSE obj
    ELSE IF case = "upper"
    THEN IF obj.t = "list"
         THEN PyList([i \in 1..Len(obj.v) |->
                      IF obj.v[i].t = "str" THEN upper(obj.v[i])
                      ELSE obj.v[i]])
         ELSE IF obj.t = "str" THEN upper(obj) ELSE obj
    ELSE obj

\* conv(obj, case), lines 136-150: [i.lower() for i in obj if
\* isinstance(i, str)] keeps only the strings of a list.
conv(obj, case) ==
    LET strs == IF obj.t = "list"
                THEN SelectSeq(obj.v, LAMBDA i : i.t = "str")
                ELSE << >>
    IN  IF case = "lower"
        THEN IF obj.t = "list"
             THEN PyList([i \in 1..Len(strs) |-> lower(strs[i])])
             ELSE IF obj.t = "str" THEN lower(obj) ELSE obj
        ELSE IF case = "upper"
        THEN IF obj.t = "list"
             THEN PyList([i \in 1..Len(strs) |-> upper(strs[i])])
             ELSE IF obj.t = "str" THEN upper(obj) ELSE obj
        ELSE obj

\* Lines 159-163 for an absent value: "if default: return default
\* else: return None".
AbsentResult(default) == IF IsTrue(default) THEN Return(default) ELSE Return(NoneV)

\* An expected_type argument: one class (or symbolic name), or a list of
\* them; types holds the class names in both cases.
Single(tp) == [list |-> FALSE, types |-> <<tp>>]
Several(tps) == [list |-> TRUE, types |-> tps]

\* etypes[etypes.index(x)] = str
Index(etypes, x) == CHOOSE i \in 1..Len(etypes) :
                       etypes[i] = x /\ \A j \in 1..(i - 1) : etypes[j] # x
Has(etypes, x) == \E i \in 1..Len(etypes) : etypes[i] = x
Overload(etypes, x) == [etypes EXCEPT ![Index(etypes, x)] = "str"]

\* Lines 177-179: 'uuid' sets the pattern and is overloaded to str.
UuidStep(etypes, pattern) ==
    IF Has(etypes, "uuid")
    THEN [etypes |-> Overload(etypes, "uuid"), pattern |-> UUID_PATTERN,
          error |-> FALSE]
    ELSE [etypes |-> etypes, pattern |-> pattern, error |-> FALSE]

\* Lines 181-183: 'scanner-uuid' sets the pattern, then
\* etypes.index('uuid') is taken: ValueError when 'uuid' is not in etypes.
ScannerStep(etypes, pattern) ==
    IF Has(etypes, "scanner-uuid")
    THEN IF Has(etypes, "uuid")
         THEN [etypes |-> Overload(etypes, "uuid"),
               pattern |-> SCANNER_UUID_PATTERN, error |-> FALSE]
         ELSE [etypes |-> etypes, pattern |-> SCANNER_UUID_PATTERN,
               error |-> TRUE]
    ELSE [etypes |-> etypes, pattern |-> pattern, error |-> FALSE]

Classes == {"int", "str", "list", "bool", "datetime"}

\* Lines 197-200: isinstance() itself raises TypeError when an etype is no
\* class; otherwise the value passes when it is an instance of any etype.
BadEtype(etypes) == \E i \in 1..Len(etypes) : etypes[i] \notin Classes
TypePass(obj, etypes) ==
    \E i \in 1..Len(etypes) : IsInstance(obj, etypes[i])

\* Lines 204-207: the TypeError names the field, obj.__class__.__name__ and
\* expected_type.__name__; a list or a str has no __name__ attribute.
TypeFailure(name, obj, expected_type) ==
    IF expected_type.list \/ expected_type.types[1] \notin Classes
    THEN Raise("AttributeError", <<"__name__">>)
    ELSE Raise("TypeError", <<name, obj.t, expected_type.types[1]>>)

\* Lines 213-224: every item of a list value, or else the value itself,
\* must be in choices when choices is a list.
ChoicesPass(obj, choices) ==
    IF obj.t = "list"
    THEN \A i \in 1..Len(obj.v) :
            ~(choices.t = "list" /\ ~PyIn(obj.v[i], choices))
    ELSE ~(choices.t = "list" /\ ~PyIn(obj, choices))

\* A variant of the pattern test that never fails ("< 0" for "<= 0").
PatternPassAlways(obj, pattern) ==
    ~(pattern # NoPattern /\ obj.t = "str" /\ Len(obj.v) < 0)

\* Lines 226-231: a pattern is only tried on a str value.
PatternPass(obj, pattern) ==
    ~(pattern # NoPattern /\ obj.t = "str" /\ ~Found(pattern, obj.v))

\* _check(name, obj, expected_type, choices, default, case, pattern):
\* out is what the call gives, expected_type the state in which the call
\* leaves the caller's expected_type object (etypes is the same list
\* object when expected_type is a non-empty list).
_check(name, obj0, expected_type, choices0, default0, case, pattern0) ==
    LET obj == conv(obj0, case)
        choices == conv(choices0, case)
        default == conv(default0, case)
        s1 == UuidStep(expected_type.types, pattern0)
        s2 == ScannerStep(s1.etypes, s1.pattern)
        left == IF expected_type.list
                THEN [expected_type EXCEPT !.types = s2.etypes]
                ELSE expected_type
    IN  IF obj.t = "NoneType"
        THEN [out |-> AbsentResult(default), expected_type |-> expected_type]
        ELSE IF s2.error
        THEN [out |-> Raise("ValueError", <<"uuid">>),
              expected_type |-> left]
        ELSE IF BadEtype(s2.etypes)
        THEN [out |-> Raise("TypeError", <<"isinstance">>),
              expected_type |-> left]
        ELSE IF ~TypePass(obj, s2.etypes)
        THEN [out |-> TypeFailure(name, obj, expected_type),
              expected_type |-> left]
        ELSE IF ~ChoicesPass(obj, choices)
        THEN [out |-> Raise("UnexpectedValueError",
                            <<name, obj, choices>>),
              expected_type |-> left]
        ELSE IF ~PatternPass(obj, s2.pattern)
        THEN [out |-> Raise("UnexpectedValueError",
                            <<name, obj, s2.pattern>>),
              expected_type |-> left]
        ELSE [out |-> Return(obj), expected_type |-> left]

\* ------------------------------------------------------------------------
\* The arguments tried
\* ------------------------------------------------------------------------
S_stop == PyStr(<<"s", "t", "o", "p">>)
S_STOP == PyStr(<<"S", "T", "O", "P">>)
S_PAUSE == PyStr(<<"P", "A", "U", "S", "E">>)
S_pause == PyStr(<<"p", "a", "u", "s", "e">>)
S_resume == PyStr(<<"r", "e", "s", "u", "m", "e">>)
S_nope == PyStr(<<"n", "o", "p", "e">>)
S_Etc == PyStr(<<"E", "t", "c">>)
S_empty == PyStr(<< >>)
S_su == PyStr(<<"s", "u">>)
S_SU == PyStr(<<"S", "U">>)
S_MO == PyStr(<<"M", "O">>)
Hex8 == <<"3", "f", "2", "A", "9", "c", "1", "e">>
Hex4 == <<"7", "B", "4", "d">>
Hex12 == <<"1", "d", "2", "e", "3", "a", "4", "b", "5", "C", "6", "d">>
Dash == <<"-">>
\* a well-formed uuid, one with a last group of 16 hex digits, and one
\* that is cut short
S_uuid ==
    PyStr(Hex8 \o Dash \o Hex4 \o Dash \o Hex4 \o Dash \o Hex4 \o Dash \o Hex12)
S_scanner_uuid ==
    PyStr(Hex8 \o Dash \o Hex4 \o Dash \o Hex4 \o Dash \o Hex4 \o Dash
        \o Hex12 \o Hex4)
S_cut_uuid == PyStr(Hex8 \o Dash \o Hex4 \o Dash \o Hex4)

Names == {"id", "action"}
Objects ==
    {NoneV, PyBool(TRUE), PyInt(0), PyInt(1), PyInt(5),
     S_stop, S_STOP, S_nope, S_empty, S_uuid, S_scanner_uuid, S_cut_uuid,
     PyList(<< >>), PyList(<<S_su, S_MO>>), PyList(<<S_SU, PyInt(1)>>),
     PyList(<<PyInt(1), PyInt(5)>>)}
ExpectedTypes ==
    {Single("int"), Single("str"), Single("list"), Single("bool"),
     Single("uuid"), Single("scanner-uuid"),
     Several(<<"int", "str">>), Several(<<"str", "list">>),
     Several(<<"int", "uuid">>)}
ChoiceLists ==
    {NoneV, PyList(<<S_STOP, S_PAUSE>>),
     PyList(<<S_stop, S_pause, S_resume>>),
     PyList(<<S_SU, S_MO>>), PyList(<<PyInt(1), PyInt(2)>>)}
Defaults ==
    {NoneV, S_empty, S_Etc, PyInt(0), PyInt(1), PyBool(TRUE), PyBool(FALSE),
     PyList(<< >>), PyList(<<S_su, S_MO>>), PyList(<<PyInt(1)>>)}
Cases == {"None", "upper", "lower"}
Patterns == {NoPattern, [groups |-> <<Group(4, 4)>>]}

NoCall == [kind |-> "none", value |-> NoneV, msg |-> << >>]

\* The caller's argument objects, before any call.
Init_Check ==
    /\ arg_name \in Names
    /\ arg_obj \in Objects
    /\ arg_expected_type \in ExpectedTypes
    /\ arg_choices \in ChoiceLists
    /\ arg_default \in Defaults
    /\ arg_case \in Cases
    /\ arg_pattern \in Patterns
    /\ called_type = arg_expected_type
    /\ result = NoCall
    /\ first_result = NoCall
    /\ calls = 0

\* No _check call is under way.
Idle_Check ==
    /\ arg_name = "id"
    /\ arg_obj = NoneV
    /\ arg_expected_type = Single("int")
    /\ arg_choices = NoneV
    /\ arg_default = NoneV
    /\ arg_case = "None"
    /\ arg_pattern = NoPattern
    /\ called_type = arg_expected_type
    /\ result = NoCall
    /\ first_result = NoCall
    /\ calls = 0

\* One call self._check(name, obj, expected_type, choices=..., default=...,
\* case=..., pattern=...) with the caller's argument objects.
Check ==
    /\ calls < MaxCalls
    /\ LET r == _check(arg_name, arg_obj, arg_expected_type, arg_choices,
                       arg_default, arg_case, arg_pattern)
       IN  /\ result' = r.out
           /\ first_result' = IF calls = 0 THEN r.out ELSE first_result
           /\ arg_expected_type' = r.expected_type
    /\ called_type' = arg_expected_type
    /\ calls' = calls + 1
    /\ UNCHANGED <<arg_name, arg_obj, arg_choices, arg_default, arg_case,
                   arg_pattern>>
    /\ UNCHANGED <<itvars, reqvars, epvars, flvars, cvars>>

\* ========================================================================
\* APISession._request and the verb methods
\* ========================================================================
\* The verb methods of APISession.
Verbs == {"get", "post", "put", "patch", "delete", "head"}
Paths == {"scanners", "exclusions/1"}
Statuses == {200, 201, 204, 302, 400, 401, 403, 404, 429, 500, 503}
Bodies == {"a", "b"}
Responses == [status_code : Statuses, body : Bodies]
\* The keyword options of a verb method call, as (name, value) pairs.
Kwargs == {{}, {<<"json", "payload">>, <<"stream", "True">>}}

\* The class attributes URL, RETRIES and RETRY_BACKOFF (0.2).
URL == NoneV
RETRIES == PyInt(5)
RETRY_BACKOFF == PyFloat(2)

\* A URL is the str of its parts, the scheme prefix first.
S_https_url == PyStr(<<"https://", "cloud.tenable.com">>)
S_http_url == PyStr(<<"http://", "a.b.c", "/api">>)

\* The policy of the adapters a new requests.Session() carries: no retry.
DefaultRetry ==
    [total |-> PyInt(0), status_forcelist |-> {},
     backoff_factor |-> PyFloat(0), respect_retry_after_header |-> TRUE]

\* Retry(total=..., status_forcelist=..., backoff_factor=...,
\* respect_retry_after_header=True) of _build_session.
Retry(total_, backoff_factor_) ==
    [total |-> total_, status_forcelist |-> {429, 501, 502, 503, 504},
     backoff_factor |-> backoff_factor_, respect_retry_after_header |-> TRUE]

\* The prefixes the adapter of _build_session is mounted on.
MountedPrefixes == {"https://"}

\* _build_session: a new requests.Session() (an adapter without retries
\* on each scheme) with the retry adapter mounted.
_build_session(retries_, backoff_) ==
    [prefix \in {"https://", "http://"} |->
        IF prefix \in MountedPrefixes THEN Retry(retries_, backoff_)
        ELSE DefaultRetry]

\* The class before construction: the class attributes, no _session.
ClassSession ==
    [URL |-> URL, RETRIES |-> RETRIES, RETRY_BACKOFF |-> RETRY_BACKOFF,
     built |-> FALSE, adapters |-> _build_session(RETRIES, RETRY_BACKOFF)]

\* APISession.__init__(url, retries, backoff), then _build_session.
APISession(url_, retries_, backoff_) ==
    LET u == IF IsTrue(url_) THEN url_ ELSE URL
        r == IF IsTrue(retries_) /\ IsInstance(retries_, "int")
             THEN retries_ ELSE RETRIES
        b == IF IsTrue(backoff_) /\ IsInstance(backoff_, "float")
             THEN backoff_ ELSE RETRY_BACKOFF
    IN  [URL |-> u, RETRIES |-> r, RETRY_BACKOFF |-> b,
         built |-> TRUE, adapters |-> _build_session(r, b)]

\* The constructor arguments: absent, of the documented type (zero
\* included), or of another type.
UrlArgs == {NoneV, S_https_url, S_http_url}
RetriesArgs == {NoneV, PyInt(0), PyInt(1), PyInt(3), PyStr(<<"3">>)}
BackoffArgs == {NoneV, PyFloat(0), PyFloat(5), PyFloat(10), PyInt(1)}

\* '{}/{}'.format(self.URL, path)
Format(url_, path) ==
    (IF url_.t = "NoneType" THEN <<"None">> ELSE url_.v) \o <<"/", path>>

\* requests' get_adapter(url): the adapter mounted on a prefix of the url.
get_adapter(adapters, url_) ==
    IF url_[1] \in DOMAIN adapters THEN adapters[url_[1]] ELSE DefaultRetry

\* A variant of the verb table in which patch sends a PUT.
HttpMethodSlip(verb) ==
    CASE verb = "get" -> "GET" [] verb = "post" -> "POST"
      [] verb = "put" -> "PUT" [] verb = "patch" -> "PUT"
      [] verb = "delete" -> "DELETE" [] verb = "head" -> "HEAD"

\* The method each verb method passes to _request.
HttpMethod(verb) ==
    CASE verb = "get" -> "GET" [] verb = "post" -> "POST"
      [] verb = "put" -> "PUT" [] verb = "patch" -> "PATCH"
      [] verb = "delete" -> "DELETE" [] verb = "head" -> "HEAD"

\* _resp_error_check(response): "return response".
_resp_error_check(response) == response

\* A variant of the classification that takes every 2xx status as success.
_requestLenient(resp) ==
    LET status == resp.status_code
    IN  IF status \div 100 = 2
        THEN [kind |-> "return", response |-> _resp_error_check(resp)]
        ELSE IF status = 400
        THEN [kind |-> "InvalidInputError", response |-> resp]
        ELSE IF status = 403
        THEN [kind |-> "PermissionError", response |-> resp]
        ELSE IF status = 404
        THEN [kind |-> "NotFoundError", response |-> resp]
        ELSE IF status = 500
        THEN [kind |-> "ServerError", response |-> resp]
        ELSE [kind |-> "UnknownError", response |-> resp]

\* _request, lines 333-347, on the response resp of the transport.
_request(resp) ==
    LET status == resp.status_code
    IN  IF status = 200
        THEN [kind |-> "return", response |-> _resp_error_check(resp)]
        ELSE IF status = 400
        THEN [kind |-> "InvalidInputError", response |-> resp]
        ELSE IF status = 403
        THEN [kind |-> "PermissionError", response |-> resp]
        ELSE IF status = 404
        THEN [kind |-> "NotFoundError", response |-> resp]
        ELSE IF status = 500
        THEN [kind |-> "ServerError", response |-> resp]
        ELSE [kind |-> "UnknownError", response |-> resp]

\* Nothing was requested yet.
NoRequest ==
    /\ sent = [method |-> "none", url |-> <<"none">>, kwargs |-> {},
               retry |-> DefaultRetry]
    /\ last_response = [status_code |-> 0, body |-> "a"]
    /\ outcome = [kind |-> "none", response |-> last_response]
    /\ nsent = 0
    /\ called = [verb |-> "none", path |-> "", kwargs |-> {}]
    /\ ncalls = 0

\* No session was constructed.
Idle_Request ==
    /\ kw = [url |-> NoneV, retries |-> NoneV, backoff |-> NoneV]
    /\ session = ClassSession
    /\ NoRequest

\* A session constructed on a base URL, with the default retry settings.
Init_Request ==
    /\ \E url_ \in {S_https_url, S_http_url} :
          /\ kw = [url |-> url_, retries |-> NoneV, backoff |-> NoneV]
          /\ session = APISession(url_, NoneV, NoneV)
    /\ NoRequest

\* The arguments of a constructor call that was not made yet.
Init_Session ==
    /\ \E url_ \in UrlArgs, retries_ \in RetriesArgs, backoff_ \in BackoffArgs :
          kw = [url |-> url_, retries |-> retries_, backoff |-> backoff_]
    /\ session = ClassSession
    /\ NoRequest

\* APISession(url, retries, backoff)
Construct ==
    /\ ~session.built
    /\ session' = APISession(kw.url, kw.retries, kw.backoff)
    /\ UNCHANGED <<sent, last_response, outcome, nsent, kw, called, ncalls>>
    /\ UNCHANGED <<itvars, chkvars, epvars, flvars, cvars>>

\* get/post/put/patch/delete/head(path, **kwargs):
\* self._request(METHOD, path, **kwargs): one transport request to
\* URL/path through the adapter of that URL, whose response is classified.
VerbCall ==
    /\ session.built
    /\ nsent < MaxRequests
    /\ \E verb \in Verbs, path \in Paths, kwargs \in Kwargs, resp \in Responses :
          LET target == Format(session.URL, path)
          IN  /\ called' = [verb |-> verb, path |-> path, kwargs |-> kwargs]
              /\ sent' = [method |-> HttpMethod(verb), url |-> target,
                          kwargs |-> kwargs,
                          retry |-> get_adapter(session.adapters, target)]
              /\ last_response' = resp
              /\ outcome' = _request(resp)
    /\ nsent' = nsent + 1
    /\ ncalls' = ncalls + 1
    /\ UNCHANGED <<kw, session>>
    /\ UNCHANGED <<itvars, chkvars, epvars, flvars, cvars>>

\* ========================================================================
\* The endpoint operations of ExclusionsAPI and EditorAPI
\* ========================================================================
Digits == <<"0", "1", "2", "3", "4", "5", "6", "7", "8", "9">>

\* '{}'.format(val): the characters of str(val), for None, a bool, a str
\* and an int of one or two digits.
Str(val) ==
    IF val.t = "str" THEN val.v
    ELSE IF val.t = "NoneType" THEN <<"N", "o", "n", "e">>
    ELSE IF val.t = "bool"
    THEN IF val.v = 1 THEN <<"T", "r", "u", "e">>
         ELSE <<"F", "a", "l", "s", "e">>
    ELSE IF val.v < 10 THEN <<Digits[val.v + 1]>>
    ELSE <<Digits[(val.v \div 10) + 1], Digits[(val.v % 10) + 1]>>

\* A datetime of January 2018, by its day (1..9), at midnight.
PyDatetime(day) == [t |-> "datetime", v |-> day]

\* ','.join(val): TypeError unless val is a list of str.
RECURSIVE JoinFrom(_, _)
JoinFrom(items, k) ==
    IF k > Len(items) THEN << >>
    ELSE IF k = Len(items) THEN items[k].v
    ELSE items[k].v \o <<",">> \o JoinFrom(items, k + 1)
Join(val) ==
    IF val.t = "list" /\ \A i \in 1..Len(val.v) : val.v[i].t = "str"
    THEN Return(PyStr(JoinFrom(val.v, 1)))
    ELSE Raise("TypeError", <<"join">>)

\* val.strftime('%Y-%m-%d %H:%M:%S'): None has no such attribute.
Strftime(val) ==
    IF val.t = "datetime"
    THEN Return(PyStr(<<"2", "0", "1", "8", "-", "0", "1", "-", "0",
                        Digits[val.v + 1], " ", "0", "0", ":", "0", "0",
                        ":", "0", "0">>))
    ELSE Raise("AttributeError", <<"strftime">>)

\* What is done with a checked value before it is stored.
Post(post, val) ==
    IF post = "join" THEN Join(val)
    ELSE IF post = "strftime" THEN Strftime(val)
    ELSE Return(val)


\* The strings of the arguments, choices and records below.
Word ==
    [lab |-> PyStr(<<"l", "a", "b">>),
     old |-> PyStr(<<"o", "l", "d">>),
     h1 |-> PyStr(<<"h", "1">>),
     h2 |-> PyStr(<<"h", "2">>),
     x |-> PyStr(<<"x">>),
     scan |-> PyStr(<<"s", "c", "a", "n">>),
     policy |-> PyStr(<<"p", "o", "l", "i", "c", "y">>),
     Etc_UTC |-> PyStr(<<"E", "t", "c", "/", "U", "T", "C">>),
     US_Central |-> PyStr(<<"U", "S", "/", "C", "e", "n", "t", "r", "a", "l">>),
     ONETIME |-> PyStr(<<"O", "N", "E", "T", "I", "M", "E">>),
     DAILY |-> PyStr(<<"D", "A", "I", "L", "Y">>),
     WEEKLY |-> PyStr(<<"W", "E", "E", "K", "L", "Y">>),
     weekly |-> PyStr(<<"w", "e", "e", "k", "l", "y">>),
     MONTHLY |-> PyStr(<<"M", "O", "N", "T", "H", "L", "Y">>),
     YEARLY |-> PyStr(<<"Y", "E", "A", "R", "L", "Y">>),
     TU |-> PyStr(<<"T", "U">>),
     WE |-> PyStr(<<"W", "E">>),
     TH |-> PyStr(<<"T", "H">>),
     FR |-> PyStr(<<"F", "R">>),
     SA |-> PyStr(<<"S", "A">>),
     severity |-> PyStr(<<"s", "e", "v">>),
     plugin |-> PyStr(<<"p", "l", "u", "g">>),
     eq |-> PyStr(<<"e", "q">>),
     neq |-> PyStr(<<"n", "e", "q">>),
     gt |-> PyStr(<<"g", "t">>),
     low |-> PyStr(<<"l", "o", "w">>),
     high |-> PyStr(<<"h", "i", "g", "h">>),
     n12 |-> PyStr(<<"1", "2">>)]

\* The choices lists of the exclusion parameters; _tz is the list of
\* timezone names the session holds.
Frequencies ==
    PyList(<<Word.ONETIME, Word.DAILY, Word.WEEKLY, Word.MONTHLY,
             Word.YEARLY>>)
Weekdays ==
    PyList(<<S_SU, S_MO, Word.TU, Word.WE, Word.TH, Word.FR, Word.SA>>)
DaysOfMonth == PyList([i \in 1..31 |-> PyInt(i)])
_tz == PyList(<<Word.Etc_UTC, Word.US_Central>>)

\* One parameter of an operation: the argument arg is checked when test
\* says so (always; when the argument is true; when it is not None; when
\* the frequency is WEEKLY or MONTHLY) and the outcome, after post, is
\* stored under key.
Step(arg, key, test, etype, choices, default, case, post) ==
    [arg |-> arg, key |-> key, test |-> test, etype |-> etype,
     choices |-> choices, default |-> default, case |-> case, post |-> post]

\* ExclusionsAPI.edit, lines 164-210, in the order of the code.
EditSteps ==
    <<Step("name", "name", "truth", "str", NoneV, NoneV, "None", "none"),
      Step("members", "members", "truth", "list", NoneV, NoneV, "None", "join"),
      Step("description", "description", "truth", "str", NoneV, NoneV,
           "None", "none"),
      Step("enabled", "enabled", "notnone", "bool", NoneV, NoneV, "None",
           "none"),
      Step("start_time", "starttime", "truth", "datetime", NoneV, NoneV,
           "None", "strftime"),
      Step("end_time", "endtime", "truth", "datetime", NoneV, NoneV,
           "None", "strftime"),
      Step("timezone", "timezone", "truth", "str", _tz, NoneV, "None", "none"),
      Step("frequency", "freq", "truth", "str", Frequencies, NoneV, "upper",
           "none"),
      Step("interval", "interval", "truth", "int", NoneV, NoneV, "None",
           "none"),
      Step("weekdays", "byweekday", "truth", "list", Weekdays, NoneV,
           "upper", "join"),
      Step("day_of_month", "bymonthday", "notnone", "int", DaysOfMonth,
           NoneV, "None", "none")>>

\* ExclusionsAPI.create, lines 49-93, in the order of evaluation; today
\* is datetime.today().day.
CreateSteps(today) ==
    <<Step("frequency", "freq", "always", "str", Frequencies, Word.ONETIME,
           "upper", "none"),
      Step("interval", "interval", "always", "int", NoneV, PyInt(1), "None",
           "none"),
      Step("weekdays", "byweekday", "weekly", "list", Weekdays, Weekdays,
           "upper", "join"),
      Step("day_of_month", "bymonthday", "monthly", "int", DaysOfMonth,
           today, "None", "none"),
      Step("name", "name", "always", "str", NoneV, NoneV, "None", "none"),
      Step("members", "members", "always", "list", NoneV, NoneV, "None",
           "join"),
      Step("description", "description", "always", "str", NoneV, S_empty,
           "None", "none"),
      Step("enabled", "enabled", "always", "bool", NoneV, PyBool(TRUE),
           "None", "none"),
      Step("start_time", "starttime", "always", "datetime", NoneV, NoneV,
           "None", "strftime"),
      Step("end_time", "endtime", "always", "datetime", NoneV, NoneV,
           "None", "strftime"),
      Step("timezone", "timezone", "always", "str", _tz, Word.Etc_UTC, "None",
           "none")>>

\* The parameters that make the path of the other operations.
IdStep(arg) == Step(arg, arg, "always", "int", NoneV, NoneV, "None", "none")
EtypeStep ==
    Step("etype", "etype", "always", "str", PyList(<<Word.scan, Word.policy>>),
         NoneV, "None", "none")
UuidStr == Step("uuid", "uuid", "always", "str", NoneV, NoneV, "None", "none")

\* The frequency stored so far equals s ("frequency == 'WEEKLY'").
FreqIs(payload, s) == payload["freq"].t = "str" /\ payload["freq"].v = s.v

\* The test of a step on the argument val.
Runs(d, val, payload) ==
    CASE d.test = "truth" -> IsTrue(val)
      [] d.test = "notnone" -> val.t # "NoneType"
      [] d.test = "weekly" -> FreqIs(payload, Word.WEEKLY)
      [] d.test = "monthly" -> FreqIs(payload, Word.MONTHLY)
      [] OTHER -> TRUE

\* The value after post, or the exception r.
Then(r, post) == IF r.kind = "return" THEN Post(post, r.value) ELSE r

\* self._check(arg, val, etype, choices=..., default=..., case=...) of a
\* step, joined or formatted.
Checked(d, val) ==
    Then(_check(d.arg, val, Single(d.etype), d.choices, d.default, d.case,
                NoPattern).out, d.post)

\* The steps from the k-th on: err is the first exception raised (a
\* return when there is none), payload the dictionary as built so far.
\* In Advance, run says whether the k-th step d is taken and c is what it
\* gives.
RECURSIVE Build(_, _, _, _)
Advance(steps, k, args, payload, d, run, c) ==
    IF run /\ c.kind # "return" THEN [err |-> c, payload |-> payload]
    ELSE Build(steps, k + 1, args,
               IF run THEN (d.key :> c.value) @@ payload ELSE payload)
Build(steps, k, args, payload) ==
    IF k > Len(steps) THEN [err |-> Return(NoneV), payload |-> payload]
    ELSE Advance(steps, k, args, payload, steps[k],
                 Runs(steps[k], args[steps[k].arg], payload),
                 Checked(steps[k], args[steps[k].arg]))

\* The decoded body of a response to GET exclusions/<id>: the exclusion
\* record, with its schedule and rrules laid flat.
Json(body) ==
    [name |-> IF body = "a" THEN Word.old ELSE Word.lab,
     members |-> Word.h1,
     description |-> IF body = "a" THEN Word.old ELSE S_empty,
     enabled |-> PyBool(body = "a"),
     starttime |-> Strftime(PyDatetime(3)).value,
     endtime |-> Strftime(PyDatetime(4)).value,
     timezone |-> Word.US_Central,
     freq |-> Word.DAILY,
     interval |-> PyInt(3),
     byweekday |-> Word.FR,
     bymonthday |-> PyInt(7)]

NoResponse == [status_code |-> 0, body |-> "a"]
NoPayload == << >>

\* What an operation gave its caller: the document returned (the key key
\* of the decoded body), the exception of a check, or the typed failure
\* of a verb call with its response.
EpReturn(body, key) ==
    [kind |-> "return", msg |-> << >>, response |-> NoResponse,
     doc |-> body, key |-> key]
EpRaised(err) ==
    [kind |-> err.kind, msg |-> err.msg, response |-> NoResponse,
     doc |-> "none", key |-> ""]
EpFailure(o) ==
    [kind |-> o.kind, msg |-> << >>, response |-> o.response,
     doc |-> "none", key |-> ""]

\* One call of a session verb method.
WireCall(verb, path, json, kwargs, resp) ==
    [verb |-> verb, path |-> path, json |-> json, kwargs |-> kwargs,
     resp |-> resp]

\* A variant that issues the request again after a failure status.
CallAgain(verb, path, json, kwargs, resp, doc, key) ==
    LET o == _request(resp)
        w == WireCall(verb, path, json, kwargs, resp)
    IN  IF o.kind = "return"
        THEN [wire |-> <<w>>, result |-> EpReturn(doc, key)]
        ELSE [wire |-> <<w, w>>, result |-> EpFailure(o)]

\* self._api.<verb>(path, ...): the verb call, whose typed failure goes
\* to the caller as it is; otherwise the operation returns key of doc.
CallOnce(verb, path, json, kwargs, resp, doc, key) ==
    LET o == _request(resp)
    IN  [wire |-> <<WireCall(verb, path, json, kwargs, resp)>>,
         result |-> IF o.kind = "return" THEN EpReturn(doc, key)
                    ELSE EpFailure(o)]

\* No call was made: the exception of a check.
NotCalled(err) == [wire |-> << >>, result |-> EpRaised(err)]

\* The verb call Call of an operation on the checked values, made when no
\* check b raised.
OnChecked(b, Call(_)) ==
    IF b.err.kind # "return" THEN NotCalled(b.err) ELSE Call(b.payload)

\* ExclusionsAPI.details
Exclusions_details(args, resp) ==
    OnChecked(Build(<<IdStep("id")>>, 1, args, NoPayload),
              LAMBDA p : CallOnce("get", <<"exclusions/">> \o Str(p["id"]),
                                  NoPayload, {}, resp, resp.body, ""))

\* The calls issued before, then one more call.
Sequel(before, call) ==
    [wire |-> before \o call.wire, result |-> call.result]

\* ExclusionsAPI.edit after payload = self.details(id) gave d: b is the
\* overlay of the arguments on the fetched record, i the check of id in
\* the path of the PUT.
EditPut(d, b, i, resp2) ==
    IF d.result.kind # "return" THEN d
    ELSE IF b.err.kind # "return"
    THEN [wire |-> d.wire, result |-> EpRaised(b.err)]
    ELSE IF i.err.kind # "return"
    THEN [wire |-> d.wire, result |-> EpRaised(i.err)]
    ELSE Sequel(d.wire,
                CallOnce("put", <<"exclusions/">> \o Str(i.payload["id"]),
                         b.payload, {}, resp2, resp2.body, ""))

\* ExclusionsAPI.edit
Exclusions_edit(args, resp1, resp2) ==
    EditPut(Exclusions_details(args, resp1),
            Build(EditSteps, 1, args, Json(resp1.body)),
            Build(<<IdStep("id")>>, 1, args, NoPayload), resp2)

\* ------------------------------------------------------------------------
\* The arguments and responses tried
\* ------------------------------------------------------------------------
Fields ==
    {"name", "members", "description", "enabled", "start_time", "end_time",
     "timezone", "frequency", "interval", "weekdays", "day_of_month"}

\* For each parameter: absent, a valid value, a false value (0, '', [],
\* False) and an invalid one.
ArgValues(f) ==
    CASE f = "name" -> {NoneV, Word.lab, S_empty, PyInt(5)}
      [] f = "members" ->
            {NoneV, PyList(<<Word.h1, Word.h2>>), PyList(<< >>), Word.h1}
      [] f = "description" -> {NoneV, Word.lab, S_empty}
      [] f = "enabled" -> {NoneV, PyBool(TRUE), PyBool(FALSE), PyInt(1)}
      [] f = "start_time" -> {NoneV, PyDatetime(1), Word.lab}
      [] f = "end_time" -> {NoneV, PyDatetime(2), PyInt(0)}
      [] f = "timezone" -> {NoneV, Word.Etc_UTC, Word.lab, S_empty}
      [] f = "frequency" -> {NoneV, Word.weekly, Word.MONTHLY, Word.lab, S_empty}
      [] f = "interval" -> {NoneV, PyInt(2), PyInt(0), Word.lab}
      [] f = "weekdays" ->
            {NoneV, PyList(<<S_su, S_MO>>), PyList(<< >>), PyList(<<Word.lab>>)}
      [] f = "day_of_month" -> {NoneV, PyInt(15), PyInt(0), PyInt(40)}

\* The arguments of a call in which at most two parameters f1 and f2 are
\* given other values than in base.
Override(base, f1, v1, f2, v2) ==
    [f \in DOMAIN base |-> IF f = f1 THEN v1 ELSE IF f = f2 THEN v2
                           ELSE base[f]]

\* edit(id): every optional parameter defaults to None.
EditBase(id) == [f \in Fields \cup {"id"} |-> IF f = "id" THEN id ELSE NoneV]
\* create(name, members, start_time, end_time) with enabled=True.
CreateBase ==
    [f \in Fields |->
        CASE f = "name" -> Word.lab
          [] f = "members" -> PyList(<<Word.h1, Word.h2>>)
          [] f = "start_time" -> PyDatetime(1)
          [] f = "end_time" -> PyDatetime(2)
          [] f = "enabled" -> PyBool(TRUE)
          [] OTHER -> NoneV]

Ids == {PyInt(12), Word.x}
Etypes == {Word.scan, Word.policy, Word.lab, PyInt(1)}
Uuids == {S_uuid, PyInt(1)}
Todays == {PyInt(5), PyInt(31)}
EpResponses == [status_code : {200, 403}, body : {"a", "b"}]
\* The responses tried for the PUT of edit.
PutResponses == [status_code : {200, 403}, body : {"a"}]

\* No operation was called.
Idle_Endpoint ==
    /\ ep = [op |-> "none", args |-> << >>]
    /\ wire = << >>
    /\ ep_result = [kind |-> "none", msg |-> << >>, response |-> NoResponse,
                    doc |-> "none", key |-> ""]

\* The operation op was called with args and ran as run.
Called(op, args, run) ==
    /\ ep' = [op |-> op, args |-> args]
    /\ wire' = run.wire
    /\ ep_result' = run.result
    /\ UNCHANGED <<itvars, chkvars, reqvars, flvars, cvars>>

\* ExclusionsAPI.create
ExclusionsCreate ==
    /\ ep.op = "none"
    /\ \E f1 \in Fields, f2 \in Fields, today \in Todays,
          resp \in EpResponses :
          \E v1 \in ArgValues(f1), v2 \in ArgValues(f2) :
             LET args == Override(CreateBase, f1, v1, f2, v2)
                 run ==
                    OnChecked(Build(CreateSteps(today), 1, args, NoPayload),
                              LAMBDA p : CallOnce("post", <<"exclusions">>, p,
                                                  {}, resp, resp.body, ""))
             IN  Called("exclusions.create", args, run)

\* ExclusionsAPI.delete
ExclusionsDelete ==
    /\ ep.op = "none"
    /\ \E id \in Ids, resp \in EpResponses :
          LET args == [f \in {"id"} |-> id]
              run ==
                  OnChecked(Build(<<IdStep("id")>>, 1, args, NoPayload),
                    LAMBDA p :
                      CallOnce("delete", <<"exclusions/">> \o Str(p["id"]),
                          NoPayload, {}, resp, "none", ""))
          IN  Called("exclusions.delete", args, run)

\* ExclusionsAPI.details
ExclusionsDetails ==
    /\ ep.op = "none"
    /\ \E id \in Ids, resp \in EpResponses :
          LET args == [f \in {"id"} |-> id]
          IN  Called("exclusions.details", args, Exclusions_details(args, resp))

\* ExclusionsAPI.edit
ExclusionsEdit ==
    /\ ep.op = "none"
    /\ \E id \in Ids, f1 \in Fields, f2 \in Fields,
          resp1 \in EpResponses, resp2 \in PutResponses :
          \E v1 \in ArgValues(f1), v2 \in ArgValues(f2) :
             LET args == Override(EditBase(id), f1, v1, f2, v2)
             IN  Called("exclusions.edit", args,
                        Exclusions_edit(args, resp1, resp2))

\* ExclusionsAPI.list
ExclusionsList ==
    /\ ep.op = "none"
    /\ \E resp \in EpResponses :
          LET args == << >>
              run ==
                  CallOnce("get", <<"exclusions">>, NoPayload, {}, resp, resp.body,
                           "exclusions")
          IN  Called("exclusions.list", args, run)

\* EditorAPI.audits: the content of the response is written to fobj
EditorAudits ==
    /\ ep.op = "none"
    /\ \E etype \in Etypes, object_id \in Ids, file_id \in Ids,
          resp \in EpResponses :
          LET args == [etype |-> etype, object_id |-> object_id,
                       file_id |-> file_id]
              run ==
                  OnChecked(Build(<<EtypeStep, IdStep("object_id"),
                      IdStep("file_id")>>, 1, args, NoPayload),
                    LAMBDA p :
                      CallOnce("get", <<"editor/">> \o Str(p["etype"])
                          \o <<"/">> \o Str(p["object_id"]) \o <<"/audits/">>
                          \o Str(p["file_id"]), NoPayload, {<<"stream",
                          "True">>}, resp, resp.body, "fobj"))
          IN  Called("editor.audits", args, run)

\* EditorAPI.details
EditorDetails ==
    /\ ep.op = "none"
    /\ \E etype \in Etypes, uuid \in Uuids, resp \in EpResponses :
          LET args == [etype |-> etype, uuid |-> uuid]
              run ==
                  OnChecked(Build(<<EtypeStep, UuidStr>>, 1, args, NoPayload),
                    LAMBDA p :
                      CallOnce("get", <<"editor/">> \o Str(p["etype"])
                          \o <<"/templates/">> \o Str(p["uuid"]), NoPayload,
                          {}, resp, resp.body, ""))
          IN  Called("editor.details", args, run)

\* EditorAPI.edit
EditorEdit ==
    /\ ep.op = "none"
    /\ \E etype \in Etypes, id \in Ids, resp \in EpResponses :
          LET args == [etype |-> etype, id |-> id]
              run ==
                  OnChecked(Build(<<EtypeStep, IdStep("id")>>, 1, args, NoPayload),
                    LAMBDA p :
                      CallOnce("get", <<"editor/">> \o Str(p["etype"])
                          \o <<"/">> \o Str(p["id"]), NoPayload, {}, resp,
                          resp.body, ""))
          IN  Called("editor.edit", args, run)

\* EditorAPI.list
EditorList ==
    /\ ep.op = "none"
    /\ \E etype \in Etypes, resp \in EpResponses :
          LET args == [etype |-> etype]
              run ==
                  OnChecked(Build(<<EtypeStep>>, 1, args, NoPayload),
                    LAMBDA p :
                      CallOnce("get", <<"editor/">> \o Str(p["etype"])
                          \o <<"/templates">>, NoPayload, {}, resp, resp.body,
                          "templates"))
          IN  Called("editor.list", args, run)

\* EditorAPI.plugin_description
EditorPluginDescription ==
    /\ ep.op = "none"
    /\ \E policy_id \in Ids, family_id \in Ids, plugin_id \in Ids,
          resp \in EpResponses :
          LET args == [policy_id |-> policy_id, family_id |-> family_id,
                       plugin_id |-> plugin_id]
              run ==
                  OnChecked(Build(<<IdStep("policy_id"), IdStep("family_id"),
                      IdStep("plugin_id")>>, 1, args, NoPayload),
                    LAMBDA p :
                      CallOnce("get", <<"editor/policy/">>
                          \o Str(p["policy_id"]) \o <<"/families/">>
                          \o Str(p["family_id"]) \o <<"/plugins/">>
                          \o Str(p["plugin_id"]), NoPayload, {}, resp,
                          resp.body, "plugindescription"))
          IN  Called("editor.plugin_description", args, run)

\* ========================================================================
\* TIOEndpoint._parse_filters
\* ========================================================================

\* The allowed filters: for each name its operators, choices and pattern.
Filterset ==
    [fn \in {Word.severity.v, Word.plugin.v} |->
        IF fn = Word.severity.v
        THEN [operators |-> PyList(<<Word.eq, Word.neq>>),
              choices |-> PyList(<<Word.low, Word.high>>), pattern |-> NoPattern]
        ELSE [operators |-> PyList(<<Word.eq, Word.gt>>), choices |-> NoneV,
              pattern |-> [groups |-> <<Group(1, 4)>>]]]

\* 'filter.{}.<part>'.format(i)
FilterKey(i, part) == <<"filter.">> \o Str(PyInt(i)) \o <<".", part>>

\* The list under key in resp, created when the key is not in resp.
ListAt(resp, key) == IF key \in DOMAIN resp THEN resp[key].v ELSE << >>

\* Lines 36-58: what one filter adds to resp, by rtype; i is
\* finput.index(f).
Store(rtype_, resp, i, fname, foper, fval) ==
    IF rtype_ = "sjson"
    THEN (FilterKey(i, "value") :> fval) @@
         ((FilterKey(i, "quality") :> foper) @@
          ((FilterKey(i, "filter") :> fname) @@ resp))
    ELSE IF rtype_ = "json"
    THEN (<<"filters">> :>
            PyList(Append(ListAt(resp, <<"filters">>),
                          [filter |-> fname, quality |-> foper,
                           value |-> fval]))) @@ resp
    ELSE IF rtype_ = "colon"
    THEN (<<"f">> :>
            PyList(Append(ListAt(resp, <<"f">>),
                          PyStr(Str(fname) \o <<":">> \o Str(foper)
                                \o <<":">> \o Str(fval))))) @@ resp
    ELSE resp

\* The loop of _parse_filters from the k-th filter on.
RECURSIVE ParseFrom(_, _, _, _, _)
ParseFrom(finput_, filterset, rtype_, k, resp) ==
    IF k > Len(finput_)
    THEN [kind |-> "return", msg |-> << >>, resp |-> resp]
    ELSE LET f == finput_[k]
             c1 == _check("filter_name", f[1], Single("str"), NoneV, NoneV,
                          "None", NoPattern).out
             known == f[1].t = "str" /\ f[1].v \in DOMAIN filterset
             fs == filterset[f[1].v]
             c2 == _check("filter_operator", f[2], Single("str"),
                          fs.operators, NoneV, "None", NoPattern).out
             c3 == _check("filter_value", f[3], Single("str"), fs.choices,
                          NoneV, "None", fs.pattern).out
         IN  IF c1.kind # "return"
             THEN [kind |-> c1.kind, msg |-> c1.msg, resp |-> resp]
             ELSE IF ~known
             THEN [kind |-> "KeyError", msg |-> <<f[1]>>, resp |-> resp]
             ELSE IF c2.kind # "return"
             THEN [kind |-> c2.kind, msg |-> c2.msg, resp |-> resp]
             ELSE IF c3.kind # "return"
             THEN [kind |-> c3.kind, msg |-> c3.msg, resp |-> resp]
             ELSE ParseFrom(finput_, filterset, rtype_, k + 1,
                            Store(rtype_, resp, Index(finput_, f) - 1,
                                  c1.value, c2.value, c3.value))

\* _parse_filters(finput, filterset, rtype)
_parse_filters(finput_, filterset, rtype_) ==
    ParseFrom(finput_, filterset, rtype_, 1, << >>)

\* The filter tuples tried: known and unknown names, allowed and other
\* operators and values.
Triples ==
    {<<fn, fo, fv>> : fn \in {Word.severity, Word.plugin, S_nope},
                      fo \in {Word.eq, Word.gt}, fv \in {Word.low, Word.n12}}
Finputs == UNION {[1..n -> Triples] : n \in 0..MaxFilters}
Rtypes == {"sjson", "json", "colon"}

NotParsed == [kind |-> "none", msg |-> << >>, resp |-> << >>]

\* No filter list was parsed.
Idle_Filters ==
    /\ finput = << >> /\ rtype = "sjson" /\ parsed = NotParsed

\* The arguments of a call of _parse_filters that was not made yet.
Init_Filters ==
    /\ finput \in Finputs /\ rtype \in Rtypes /\ parsed = NotParsed

ParseFilters ==
    /\ parsed = NotParsed
    /\ parsed' = _parse_filters(finput, Filterset, rtype)
    /\ UNCHANGED <<finput, rtype>>
    /\ UNCHANGED <<itvars, chkvars, reqvars, epvars, cvars>>

\* No iterator was constructed: the class attributes.
Idle_Iterator ==
    /\ count = 0 /\ page_count = 0 /\ total = 0 /\ page = << >>
    /\ _limit = NoneInt /\ _offset = NoneInt
    /\ _pages_total = NoneInt /\ _pages_requested = 0
    /\ server = [mode |-> "const", T |-> 0]
    /\ offset0 = 0 /\ requests = 0 /\ yielded = << >>
    /\ last = "none" /\ stops = 0

\* ========================================================================
\* Two callers of next() on one iterator
\* ========================================================================
\* next() taken apart into the statements between which another caller can
\* run: the exhaustion and end-of-page tests (lines 69-75), _get_page()
\* (line 76), the read of the record (line 80), the two increments and the
\* return (lines 81-83).  Each caller calls next() until a call of its own
\* raises.  With sync the callers hold a lock of their own from the call to
\* its end.
Callers == {"first", "second"}

Nobody == "nobody"

\* No caller is inside next().
Idle_Callers ==
    /\ at = [who \in Callers |-> "idle"]
    /\ held = [who \in Callers |-> NoneInt]
    /\ got = [who \in Callers |-> << >>]
    /\ sync = FALSE
    /\ holder = Nobody

Init_Callers ==
    /\ at = [who \in Callers |-> "idle"]
    /\ held = [who \in Callers |-> NoneInt]
    /\ got = [who \in Callers |-> << >>]
    /\ sync \in BOOLEAN
    /\ holder = Nobody

\* The lock after the end of the holder's call.
Release == IF sync THEN Nobody ELSE holder

\* A variant of the call in which the caller does not wait for the lock.
EnterUnlocked(who) ==
    /\ at[who] = "idle"
    /\ at' = [at EXCEPT ![who] = "check"]
    /\ holder' = IF sync THEN who ELSE holder
    /\ UNCHANGED <<held, got, sync>>
    /\ UNCHANGED <<itvars, chkvars, reqvars, epvars, flvars>>

\* A caller calls next(), once it has the lock when the callers use one.
Enter(who) ==
    /\ at[who] = "idle"
    /\ sync => holder = Nobody
    /\ at' = [at EXCEPT ![who] = "check"]
    /\ holder' = IF sync THEN who ELSE holder
    /\ UNCHANGED <<held, got, sync>>
    /\ UNCHANGED <<itvars, chkvars, reqvars, epvars, flvars>>

\* Lines 69-75: StopIteration when the count has reached the total, else
\* on to _get_page() at the end of the page and to the read otherwise.
CheckStep(who) ==
    /\ at[who] = "check"
    /\ IF Exhausted(count, total)
       THEN /\ at' = [at EXCEPT ![who] = "stopped"]
            /\ holder' = Release
            /\ last' = "StopIteration"
       ELSE /\ at' = [at EXCEPT ![who] =
                        IF NeedPage(page_count, page, count, total)
                        THEN "fetch" ELSE "read"]
            /\ UNCHANGED <<holder, last>>
    /\ UNCHANGED <<count, page_count, total, page, _limit, _offset,
                   _pages_total, _pages_requested, server, offset0,
                   requests, yielded, stops>>
    /\ UNCHANGED <<held, got, sync>>
    /\ UNCHANGED <<chkvars, reqvars, epvars, flvars>>

\* Line 76: _get_page(), which raises StopIteration at the page cap and
\* otherwise requests a page, resets the cursor, counts the page, advances
\* the offset and takes the page and the total of the response.
FetchStep(who) ==
    /\ at[who] = "fetch"
    /\ IF CapReached(_pages_total, _pages_requested)
       THEN /\ at' = [at EXCEPT ![who] = "stopped"]
            /\ holder' = Release
            /\ last' = "StopIteration"
            /\ UNCHANGED <<page_count, total, page, _offset,
                           _pages_requested, requests>>
       ELSE /\ _pages_requested < MaxFetch
            /\ \E resp \in _get_data(server, _offset, _limit) :
                  /\ page' = resp.page
                  /\ total' = resp.total
            /\ page_count' = ResetCursor(page_count)
            /\ _pages_requested' = _pages_requested + 1
            /\ requests' = requests + 1
            /\ _offset' = AdvanceOffset(_offset, _limit)
            /\ at' = [at EXCEPT ![who] = "read"]
            /\ UNCHANGED <<holder, last>>
    /\ UNCHANGED <<count, _limit, _pages_total, server, offset0, yielded,
                   stops>>
    /\ UNCHANGED <<held, got, sync>>
    /\ UNCHANGED <<chkvars, reqvars, epvars, flvars>>

\* Line 80: item = self.page[self.page_count], IndexError when the cursor
\* is outside the page.
ReadStep(who) ==
    /\ at[who] = "read"
    /\ IF page_count + 1 \in 1..Len(page)
       THEN /\ held' = [held EXCEPT ![who] = page[page_count + 1]]
            /\ at' = [at EXCEPT ![who] = "increment"]
            /\ UNCHANGED <<holder, last>>
       ELSE /\ at' = [at EXCEPT ![who] = "failed"]
            /\ holder' = Release
            /\ last' = "IndexError"
            /\ UNCHANGED held
    /\ UNCHANGED <<count, page_count, total, page, _limit, _offset,
                   _pages_total, _pages_requested, server, offset0,
                   requests, yielded, stops>>
    /\ UNCHANGED <<got, sync>>
    /\ UNCHANGED <<chkvars, reqvars, epvars, flvars>>

\* Lines 81-83: both counters are incremented and the item is returned.
IncrementStep(who) ==
    /\ at[who] = "increment"
    /\ count' = count + 1
    /\ page_count' = page_count + 1
    /\ got' = [got EXCEPT ![who] = Append(@, held[who])]
    /\ yielded' = Append(yielded, held[who])
    /\ held' = [held EXCEPT ![who] = NoneInt]
    /\ last' = "item"
    /\ at' = [at EXCEPT ![who] = "idle"]
    /\ holder' = Release
    /\ UNCHANGED <<total, page, _limit, _offset, _pages_total,
                   _pages_requested, server, offset0, requests, stops>>
    /\ UNCHANGED sync
    /\ UNCHANGED <<chkvars, reqvars, epvars, flvars>>

\* ------------------------------------------------------------------------
\* Specifications
\* ------------------------------------------------------------------------
vars == <<itvars, chkvars, reqvars, epvars, flvars, cvars>>

\* the results iterator
Init ==
    Init_Iterator /\ Idle_Check /\ Idle_Request /\ Idle_Endpoint /\ Idle_Filters
    /\ Idle_Callers
Next == NextExhausted \/ NextFromPage \/ NextCapped \/ NextFetch
Spec == Init /\ [][Next]_vars

\* _check
InitCheck ==
    Idle_Iterator /\ Init_Check /\ Idle_Request /\ Idle_Endpoint /\ Idle_Filters
    /\ Idle_Callers
NextCheck == Check
SpecCheck == InitCheck /\ [][NextCheck]_vars

\* the session's verb methods
InitRequest ==
    Idle_Iterator /\ Idle_Check /\ Init_Request /\ Idle_Endpoint /\ Idle_Filters
    /\ Idle_Callers
NextRequest == VerbCall
SpecRequest == InitRequest /\ [][NextRequest]_vars

\* the construction of a session
InitSession ==
    Idle_Iterator /\ Idle_Check /\ Init_Session /\ Idle_Endpoint /\ Idle_Filters
    /\ Idle_Callers
NextSession == Construct
SpecSession == InitSession /\ [][NextSession]_vars

\* the endpoint operations
InitEndpoint ==
    Idle_Iterator /\ Idle_Check /\ Idle_Request /\ Idle_Endpoint /\ Idle_Filters
    /\ Idle_Callers
NextEndpoint ==
    \/ ExclusionsCreate \/ ExclusionsDelete \/ ExclusionsDetails
    \/ ExclusionsEdit \/ ExclusionsList
    \/ EditorAudits \/ EditorDetails \/ EditorEdit \/ EditorList
    \/ EditorPluginDescription
SpecEndpoint == InitEndpoint /\ [][NextEndpoint]_vars

\* _parse_filters
InitFilters ==
    Idle_Iterator /\ Idle_Check /\ Idle_Request /\ Idle_Endpoint /\ Init_Filters
    /\ Idle_Callers
NextFilters == ParseFilters
SpecFilters == InitFilters /\ [][NextFilters]_vars

\* two callers of one results iterator, on a server of constant total
InitConcurrent ==
    Init_Iterator /\ server.mode = "const" /\ Idle_Check /\ Idle_Request /\ Idle_Endpoint /\ Idle_Filters
    /\ Init_Callers
NextConcurrent ==
    \E who \in Callers :
        \/ Enter(who) \/ CheckStep(who) \/ FetchStep(who)
        \/ ReadStep(who) \/ IncrementStep(who)
SpecConcurrent == InitConcurrent /\ [][NextConcurrent]_vars

\* ========================================================================
\* Properties of the results iterator
\* ========================================================================
\* No page cap is configured (_pages_total is None, or the equally false 0).
NoCap == ~Truthy(_pages_total)

\* The server reports a constant total T and serves the records from
\* offset 0 in pages of _limit records; no page cap.
ConstRun == server.mode = "const" /\ offset0 = 0 /\ NoCap

\* C1 (as stated): at exhaustion of a run against a constant-total server
\* exactly ceil(T/L) pages were fetched and exactly the T records were
\* yielded, each once and in server order.
C1_CeilFetches ==
    (ConstRun /\ last = "StopIteration") =>
        /\ requests = CeilDiv(server.T, _limit)
        /\ yielded = Records(0, server.T)

\* C1 (amended): against a constant-total server the records come out in
\* server order without a failure, and at exhaustion exactly
\* max(1, ceil(T/L)) pages were fetched (the construction fetch is made
\* also when T = 0) and exactly the T records were yielded.
C1_FetchesAndRecords ==
    ConstRun =>
        /\ last # "IndexError"
        /\ count <= server.T
        /\ yielded = Records(0, count)
        /\ requests <= Max(1, CeilDiv(server.T, _limit))
        /\ last = "StopIteration" =>
              /\ requests = Max(1, CeilDiv(server.T, _limit))
              /\ yielded = Records(0, server.T)

\* A run of T = 3 records in pages of 2 that reached StopIteration after
\* two fetches and three records.
C1_Witness ==
    /\ ConstRun /\ server.T = 3 /\ _limit = 2
    /\ last = "StopIteration" /\ requests = 2 /\ Len(yielded) = 3

\* C2: with a page cap P >= 1 the page requests never exceed P (so at
\* most P * limit records are yielded), and a next() call made when P
\* pages are fetched and the last is walked signals StopIteration without
\* a request, whatever the total.
C2_PageCap ==
    /\ [](Truthy(_pages_total) =>
             /\ requests <= _pages_total
             /\ Len(yielded) <= _pages_total * _limit)
    /\ [][(/\ Truthy(_pages_total)
           /\ _pages_requested = _pages_total
           /\ page_count >= Len(page)) =>
              (/\ last' = "StopIteration"
               /\ requests' = requests
               /\ yielded' = yielded)]_vars

\* The cap stopped a run whose total was not reached.
C2_Witness ==
    /\ Truthy(_pages_total) /\ requests = _pages_total
    /\ page_count >= Len(page) /\ Len(page) > 0
    /\ last = "StopIteration" /\ count < total

\* C3: the cumulative count never exceeds the total held by the iterator.
C3_CountWithinTotal == count <= total

\* C4: the offset is the initial offset plus limit times the pages
\* fetched; a fetch advances it by exactly limit, every other call leaves
\* it unchanged, and it never decreases.
C4_Offset ==
    /\ [](/\ _offset = offset0 + _limit * requests
          /\ _pages_requested = requests)
    /\ [][/\ _offset' >= _offset
          /\ (requests' = requests => _offset' = _offset)
          /\ (requests' # requests =>
                 /\ requests' = requests + 1
                 /\ _offset' = _offset + _limit)]_vars

\* The offset went past the total on a final short page.
C4_Witness ==
    /\ server.mode = "const" /\ server.T = 3 /\ _limit = 2
    /\ requests = 2 /\ Len(page) = 1 /\ _offset = offset0 + 4
    /\ last = "StopIteration"

\* C5: once next() has signalled StopIteration, every later next() call
\* signals StopIteration again, requests no page and changes no attribute.
C5_Terminal ==
    [][last = "StopIteration" =>
          /\ last' = "StopIteration"
          /\ UNCHANGED <<count, page_count, page, _offset, total,
                         _pages_requested, requests, yielded>>]_vars

\* StopIteration was signalled twice in a row by the page cap.
C5_Witness ==
    /\ stops = 2 /\ last = "StopIteration"
    /\ count < total /\ CapReached(_pages_total, _pages_requested)

\* ========================================================================
\* Properties of APISession._request (under SpecRequest)
\* ========================================================================
\* C6: for every verb the outcome is decided by the status alone: 200
\* returns the hook's result (the response), 400, 403, 404 and 500 raise
\* their failure, every other status raises UnknownError, and each failure
\* carries the response.
C6_Classification ==
    nsent > 0 =>
        LET s == last_response.status_code
        IN  /\ outcome.response = last_response
            /\ outcome.kind =
                  CASE s = 200 -> "return"
                    [] s = 400 -> "InvalidInputError"
                    [] s = 403 -> "PermissionError"
                    [] s = 404 -> "NotFoundError"
                    [] s = 500 -> "ServerError"
                    [] OTHER -> "UnknownError"
            /\ (outcome.kind = "return" <=> s = 200)

\* A DELETE answered 204 was raised as UnknownError.
C6_Witness ==
    /\ nsent > 0 /\ sent.method = "DELETE"
    /\ last_response.status_code = 204 /\ outcome.kind = "UnknownError"

\* ========================================================================
\* Properties of APIEndpoint._check (under SpecCheck)
\* ========================================================================
SameValue(a, b) == a.t = b.t /\ a.v = b.v

\* The class an expected type stands for: the symbolic 'uuid' and
\* 'scanner-uuid' types stand for str.
AsClass(tp) == IF tp \in {"uuid", "scanner-uuid"} THEN "str" ELSE tp

\* The value is an instance of at least one of the expected types of the
\* last call.
OfExpectedType ==
    \E i \in 1..Len(called_type.types) :
        IsInstance(arg_obj, AsClass(called_type.types[i]))

\* C7: a value that is present is accepted by the type check when it is an
\* instance of an expected type (the call returns or fails a later check),
\* and otherwise the call raises TypeError naming the field and the actual
\* type.
C7_TypeMismatch ==
    (calls > 0 /\ arg_obj.t # "NoneType") =>
        IF OfExpectedType
        THEN result.kind \in {"return", "UnexpectedValueError"}
        ELSE /\ result.kind = "TypeError"
             /\ Len(result.msg) = 3
             /\ result.msg[1] = arg_name
             /\ result.msg[2] = arg_obj.t

\* C8: for an absent value the call returns the default when one was
\* supplied (in the requested case), and None otherwise.
C8_AbsentDefault ==
    (calls > 0 /\ arg_obj.t = "NoneType") =>
        /\ result.kind = "return"
        /\ SameValue(result.value,
                     IF arg_default.t # "NoneType"
                     THEN convKeep(arg_default, arg_case)
                     ELSE NoneV)

\* C9: with choices supplied, a value of the right type (no pattern
\* applying) is returned, normalized, iff it (or each of its elements) is
\* among the normalized choices, and UnexpectedValueError naming the field
\* is raised otherwise.
C9_Choices ==
    (/\ calls > 0 /\ arg_obj.t # "NoneType" /\ arg_choices.t = "list"
     /\ arg_pattern = NoPattern
     /\ \A i \in 1..Len(called_type.types) : called_type.types[i] \in Classes
     /\ OfExpectedType) =>
        LET val == convKeep(arg_obj, arg_case)
            chs == convKeep(arg_choices, arg_case)
            ok == IF val.t = "list"
                  THEN \A i \in 1..Len(val.v) : PyIn(val.v[i], chs)
                  ELSE PyIn(val, chs)
        IN  IF ok
            THEN result.kind = "return" /\ SameValue(result.value, val)
            ELSE /\ result.kind = "UnexpectedValueError"
                 /\ result.msg[1] = arg_name

\* C10: the value a call returns (the value passed, or the default for an
\* absent one) is the input with its strings, and only them, converted:
\* a list keeps its length and its non-string elements.
C10_OnlyStrings ==
    (calls > 0 /\ result.kind = "return" /\ result.value.t # "NoneType") =>
        SameValue(result.value,
                  convKeep(IF arg_obj.t = "NoneType" THEN arg_default
                           ELSE arg_obj, arg_case))

\* The pattern in force in the last call: the uuid pattern when 'uuid' was
\* among the expected types, else the pattern of the caller.
PatternInForce ==
    IF Has(called_type.types, "uuid") THEN UUID_PATTERN ELSE arg_pattern

\* C11: a str value of the right type (no choices given) on which a
\* pattern is in force (the caller's, or the uuid pattern) is returned iff
\* the pattern matches somewhere in it, and otherwise the call raises
\* UnexpectedValueError naming the field, the value and the pattern.
C11_Pattern ==
    (/\ calls > 0 /\ arg_obj.t = "str" /\ arg_choices.t = "NoneType"
     /\ ~Has(called_type.types, "scanner-uuid")
     /\ OfExpectedType
     /\ PatternInForce # NoPattern) =>
        LET val == convKeep(arg_obj, arg_case)
        IN  IF Found(PatternInForce, val.v)
            THEN result.kind = "return" /\ SameValue(result.value, val)
            ELSE /\ result.kind = "UnexpectedValueError"
                 /\ Len(result.msg) = 3
                 /\ result.msg[1] = arg_name
                 /\ SameValue(result.msg[2], val)
                 /\ result.msg[3] = PatternInForce

\* 'nope' validated as 'uuid' was refused for the pattern.
C11_Witness ==
    /\ calls > 0 /\ called_type = Single("uuid")
    /\ SameValue(arg_obj, S_nope) /\ arg_choices.t = "NoneType"
    /\ result.kind = "UnexpectedValueError"
    /\ Len(result.msg) = 3 /\ result.msg[3] = UUID_PATTERN

\* C12: with expected type 'scanner-uuid' (no choices given) a str matching
\* the scanner pattern is returned, a str not matching it raises
\* UnexpectedValueError, and a value that is no str raises TypeError.
C12_ScannerUuid ==
    (/\ calls > 0 /\ arg_obj.t # "NoneType" /\ arg_choices.t = "NoneType"
     /\ called_type = Single("scanner-uuid")) =>
        IF arg_obj.t # "str"
        THEN result.kind = "TypeError"
        ELSE IF Found(SCANNER_UUID_PATTERN, convKeep(arg_obj, arg_case).v)
        THEN /\ result.kind = "return"
             /\ SameValue(result.value, convKeep(arg_obj, arg_case))
        ELSE result.kind = "UnexpectedValueError"

\* Two calls give the same: the same returned value or the same failure.
SameOutcome(a, b) == a.kind = b.kind /\ SameValue(a.value, b.value)

\* C13: a call leaves the caller's expected_type object as it was passed
\* (the other arguments are never written), and every call with the same
\* argument objects gives what the first call gave.
C13_Pure ==
    calls > 0 =>
        /\ arg_expected_type = called_type
        /\ SameOutcome(result, first_result)

\* ========================================================================
\* Properties of APISession (under SpecSession and SpecRequest)
\* ========================================================================
\* C14: a constructed session has the supplied retry count when it is an
\* int (zero included) and the supplied backoff when it is a float (zero
\* included), the class default of each when the argument is absent or of
\* another type, and the supplied base URL in place of the default one.
C14_Construction ==
    session.built =>
        /\ SameValue(session.RETRIES,
                IF kw.retries.t = "int" THEN kw.retries ELSE PyInt(5))
        /\ SameValue(session.RETRY_BACKOFF,
                IF kw.backoff.t = "float" THEN kw.backoff ELSE PyFloat(2))
        /\ SameValue(session.URL, IF kw.url.t = "str" THEN kw.url ELSE NoneV)

\* C15: every request of a session, on an http:// as on an https:// base
\* URL, goes through a transport whose retry policy has the session's
\* retry count, the statuses 429, 501, 502, 503 and 504, the session's
\* backoff factor and honours Retry-After; and the adapters built at
\* construction never change.
C15_RetryPolicy ==
    /\ [](nsent > 0 =>
            /\ SameValue(sent.retry.total, session.RETRIES)
            /\ sent.retry.status_forcelist = {429, 501, 502, 503, 504}
            /\ SameValue(sent.retry.backoff_factor, session.RETRY_BACKOFF)
            /\ sent.retry.respect_retry_after_header)
    /\ [][session.built => session'.adapters = session.adapters]_vars

\* C16: after a verb method call the transport was invoked once for each
\* call made so far, the last time with the method named by the verb, the
\* URL base + "/" + path and the keyword options of the call, whatever the
\* status of the response.
C16_VerbOnce ==
    nsent > 0 =>
        /\ nsent = ncalls
        /\ sent.method =
              CASE called.verb = "get" -> "GET"
                [] called.verb = "post" -> "POST"
                [] called.verb = "put" -> "PUT"
                [] called.verb = "patch" -> "PATCH"
                [] called.verb = "delete" -> "DELETE"
                [] called.verb = "head" -> "HEAD"
        /\ session.URL.t = "str"
        /\ sent.url = session.URL.v \o <<"/", called.path>>
        /\ sent.kwargs = called.kwargs

\* A second call, a patch with keyword options, answered 500: the one
\* PATCH request with these options was made and ServerError raised.
C16_Witness ==
    /\ ncalls = 2 /\ nsent = 2
    /\ called.verb = "patch" /\ sent.method = "PATCH"
    /\ called.kwargs # {} /\ sent.kwargs = called.kwargs
    /\ last_response.status_code = 500 /\ outcome.kind = "ServerError"

\* ========================================================================
\* Properties of the endpoint operations (under SpecEndpoint)
\* ========================================================================
ValidationFailures == {"TypeError", "UnexpectedValueError"}
TypedFailures ==
    {"InvalidInputError", "PermissionError", "NotFoundError", "ServerError",
     "UnknownError"}

\* C17: when an operation raised a validation failure (TypeError or
\* UnexpectedValueError), it had issued no session verb call.
C17_ValidateFirst ==
    (ep.op # "none" /\ ep_result.kind \in ValidationFailures) =>
        Len(wire) = 0

\* C18 as stated: an operation that returned has issued exactly one verb
\* call, and an operation that raised a typed failure has issued the one
\* call that failed and gives that failure with its response.
C18_ExactlyOne ==
    /\ (ep.op # "none" /\ ep_result.kind = "return") => Len(wire) = 1
    /\ (ep.op # "none" /\ ep_result.kind \in TypedFailures) =>
          /\ Len(wire) = 1
          /\ ep_result.kind = _request(wire[1].resp).kind
          /\ ep_result.response = wire[1].resp

\* The verb calls of an operation that returns: the GET of details(id)
\* and the PUT for ExclusionsAPI.edit, one call for every other operation.
CallsOf(op) == IF op = "exclusions.edit" THEN <<"get", "put">>
               ELSE IF op = "exclusions.create" THEN <<"post">>
               ELSE IF op = "exclusions.delete" THEN <<"delete">>
               ELSE <<"get">>

\* C18: an operation that returned has issued exactly its verb calls (one
\* call, and for ExclusionsAPI.edit two: the GET, then the PUT); when a
\* verb call raised a typed failure, the operation raised that failure
\* with the response of that call, which is the last call it issued and was
\* issued once.
C18_CallsIssued ==
    /\ (ep.op # "none" /\ ep_result.kind = "return") =>
          /\ Len(wire) = Len(CallsOf(ep.op))
          /\ \A i \in 1..Len(wire) : wire[i].verb = CallsOf(ep.op)[i]
    /\ (ep.op # "none" /\ ep_result.kind \in TypedFailures) =>
          /\ Len(wire) \in 1..Len(CallsOf(ep.op))
          /\ \A i \in 1..Len(wire) :
                /\ wire[i].verb = CallsOf(ep.op)[i]
                /\ (i < Len(wire) => wire[i].resp.status_code = 200)
          /\ wire[Len(wire)].resp.status_code # 200
          /\ ep_result.kind = _request(wire[Len(wire)].resp).kind
          /\ ep_result.response = wire[Len(wire)].resp

\* An edit whose GET was answered 200 and whose PUT was answered 403:
\* two calls, and the PermissionError of the PUT.
C18_Witness ==
    /\ ep.op = "exclusions.edit" /\ Len(wire) = 2
    /\ wire[1].resp.status_code = 200 /\ wire[2].resp.status_code = 403
    /\ ep_result.kind = "PermissionError" /\ ep_result.response = wire[2].resp

\* The value c was checked without an exception and is the one stored.
Overlaid(c, stored) == c.kind = "return" /\ SameValue(stored, c.value)

\* C20: the payload that ExclusionsAPI.edit PUTs is the record fetched by
\* details(id) in which every parameter that was supplied (not None: 0,
\* False, '' and [] are supplied values) is replaced by its validated
\* value, and every other field is as fetched; a supplied value that does
\* not validate leaves no PUT.
C20_Overlay ==
    (ep.op = "exclusions.edit" /\ Len(wire) = 2) =>
        LET fetched == Json(wire[1].resp.body)
            payload == wire[2].json
        IN  /\ DOMAIN payload = DOMAIN fetched
            /\ \A k \in 1..Len(EditSteps) :
                  LET d == EditSteps[k]
                      val == ep.args[d.arg]
                  IN  IF val.t = "NoneType"
                      THEN SameValue(payload[d.key], fetched[d.key])
                      ELSE Overlaid(Checked(d, val), payload[d.key])

\* ========================================================================
\* Properties of _parse_filters (under SpecFilters)
\* ========================================================================
\* C19: for rtype 'sjson' and a list of n valid filter tuples the mapping
\* returned has exactly the keys filter.i.filter, filter.i.quality and
\* filter.i.value for i = 0..n-1, holding the name, operator and value of
\* the i-th tuple.
C19_Sjson ==
    (parsed.kind = "return" /\ rtype = "sjson") =>
        /\ DOMAIN parsed.resp =
              {FilterKey(i, part) : i \in 0..(Len(finput) - 1),
                                    part \in {"filter", "quality", "value"}}
        /\ \A i \in 0..(Len(finput) - 1) :
              /\ SameValue(parsed.resp[FilterKey(i, "filter")], finput[i + 1][1])
              /\ SameValue(parsed.resp[FilterKey(i, "quality")], finput[i + 1][2])
              /\ SameValue(parsed.resp[FilterKey(i, "value")], finput[i + 1][3])

\* C21: a session constructed without a retries argument has the retry
\* count 3 of its documentation, and 3 is the total handed to the retry
\* policy of the adapter the session mounts.
C21_DefaultRetries ==
    (session.built /\ kw.retries.t = "NoneType") =>
        /\ SameValue(session.RETRIES, PyInt(3))
        /\ SameValue(session.adapters["https://"].total, PyInt(3))

\* ========================================================================
\* Steps of the results iterator (under Spec)
\* ========================================================================
\* C22: a next() call made with the count below the total and the page
\* cap not reached returns a record, adds one to the count and leaves the
\* page cursor one past the place it read, after exactly one page request
\* when the cursor had reached the end of the page and after none
\* otherwise; and whatever the server answers, a call ends with a record
\* or with StopIteration, never with another failure.
C22_Production ==
    [][/\ last' \in {"item", "StopIteration"}
       /\ (count < total /\ ~CapReached(_pages_total, _pages_requested)) =>
            /\ last' = "item"
            /\ Len(yielded') = Len(yielded) + 1
            /\ count' = count + 1
            /\ page_count' =
                  (IF page_count >= Len(page) THEN 0 ELSE page_count) + 1
            /\ requests' =
                  requests + (IF page_count >= Len(page) THEN 1 ELSE 0)]_vars

\* C23: after construction and after every next() call, whatever the
\* server answered, the page cursor lies between 0 and the length of the
\* page held; and a page request puts the cursor back at 0, so that a call
\* that requested a page leaves the cursor at the number of records it
\* then read from that page (one, or none when the call failed).
C23_Cursor ==
    /\ [](/\ page_count \in 0..Len(page)
          /\ last = "constructed" => page_count = 0)
    /\ [][requests' = requests + 1 =>
            page_count' = Len(yielded') - Len(yielded)]_vars

\* A call at the end of a full page of two records requested the last
\* page, of one record, and read that record.
C23_Witness ==
    /\ _limit = 2
    /\ requests = 2
    /\ Len(yielded) = 3
    /\ last = "item"
    /\ Len(page) = 1
    /\ page_count = 1

\* ========================================================================
\* Concurrent advancement of the results iterator (under SpecConcurrent)
\* ========================================================================
\* Every caller's loop over the iterator has ended with StopIteration.
AllStopped == \A who \in Callers : at[who] = "stopped"

\* The number of times the record r was returned, to any caller.
Deliveries(r) ==
    Cardinality({d \in Callers \X (1..Len(yielded)) :
                    /\ d[2] <= Len(got[d[1]])
                    /\ got[d[1]][d[2]] = r})

\* C24: when the callers make every next() call atomic with a lock of
\* their own (against a server of constant total serving from offset 0,
\* no page cap), no call fails, no record is returned twice, none is
\* passed over, and when every caller's loop has ended each record was
\* returned exactly once, to one of the callers.  Without the lock an
\* interleaving of the statements of two calls returns one record to both
\* callers and passes over another (C24_Race).
C24_Synchronized ==
    (sync /\ ConstRun) =>
        /\ \A who \in Callers : at[who] # "failed"
        /\ \A r \in 0..(server.T - 1) :
              /\ Deliveries(r) <= 1
              /\ Deliveries(r) = 1 =>
                    \A q \in 0..(r - 1) : Deliveries(q) = 1
        /\ AllStopped => \A r \in 0..(server.T - 1) : Deliveries(r) = 1

\* Without the lock, both loops have ended, one record was returned to
\* both callers and another to neither.
C24_Race ==
    /\ ~sync
    /\ ConstRun
    /\ AllStopped
    /\ \E r \in 0..(server.T - 1) :
          /\ \E i \in 1..Len(got["first"]) : got["first"][i] = r
          /\ \E j \in 1..Len(got["second"]) : got["second"][j] = r
    /\ \E r \in 0..(server.T - 1) : Deliveries(r) = 0
====
